---------------------------- MODULE Spec2Model ----------------------------
(***************************************************************************)
(* A model of the WeatherGuard backend services (gwrxuk/PredictWeather):   *)
(*   - WeatherScheduler (services/scheduler.py): the scheduler thread, its *)
(*     five cadences, start()/stop(), the collection tick and the alert    *)
(*     sweep (_check_risk_thresholds);                                     *)
(*   - AIWeatherService (services/ai_service.py): _assess_risks,           *)
(*     generate_weather_alert and its template fallback,                   *)
(*     analyze_weather_patterns and generate_weather_prediction;           *)
(*   - WebSocketManager (services/websocket_manager.py): connections,      *)
(*     subscriptions and broadcasts.                                       *)
(*                                                                         *)
(* The module holds several specifications over one set of variables:      *)
(*   SpecSched / FairSched  the scheduler thread and its caller            *)
(*   SpecSweep              one alert sweep over a RiskScores map          *)
(*   SpecCollect            collection ticks over the list of cities       *)
(*   SpecRisk               _assess_risks applied to bounded batches       *)
(*   SpecAnalysis           analyze_weather_patterns and the analysis tick *)
(*   SpecPredict            generate_weather_prediction and the prediction *)
(*                          tick                                           *)
(*   SpecWs                 the WebSocket manager's operations and a       *)
(*                          broadcast, interleaved                         *)
(* Each specification leaves the variables of the other parts unchanged.   *)
(*                                                                         *)
(* Numbers: the code computes with IEEE doubles.  The model computes with  *)
(* exact rationals [n |-> numerator, d |-> denominator], d > 0, compared   *)
(* by cross multiplication; the inputs it draws are integers, for which    *)
(* the code's divisions and comparisons against 0.7 and 0.8 agree with the *)
(* exact ones.  np.polyfit is the exception: its least-squares solution is *)
(* rounded, so where the exact slope is 0 and the series is not all zeros  *)
(* the fitted slope is a tiny value of either sign or 0 (fit_rounding).    *)
(***************************************************************************)
EXTENDS Integers, Sequences, FiniteSets, TLC

(***************************************************************************)
(* Bounds of the model (not program constants).                            *)
(***************************************************************************)
\* how many scheduler threads start() may create in one behaviour
MaxThreads == 2
\* how many jobs may be due at one wake-up of the scheduler loop
MaxDue == 2
\* how many of the code's eight cities the collection tick iterates over
NumCities == 3
\* the longest batch (DataFrame) _assess_risks is applied to
MaxLen == 2
\* how many locations the database has measurements of
NumLocations == 2
\* how many client ids use the WebSocket manager
NumClients == 2

VARIABLES
    \* ---- WeatherScheduler and the schedule library's job list ----
    running,      \* self.running
    thread,       \* self.thread: 0 is None, else the id of the last thread created
    tpc,          \* thread id -> where that thread is in _run_scheduler
    cur,          \* thread id -> index in jobs of the job it is executing (0: none)
    runnable,     \* thread id -> indices of the due jobs run_pending() still has to run
    slept,        \* thread id -> the thread has been through time.sleep(60) at least once
    jobs,         \* schedule's module-level job list: one record per registered job
    cpc,          \* the caller of start()/stop(): "idle", or "joining" inside thread.join()
    failedCad,    \* cadence of the last tick whose body raised ("": no tick has failed)
    \* ---- one alert sweep: _check_risk_thresholds ----
    risk_assessment, \* hazard key -> score, the sweep's argument
    swPc,         \* position in the sweep
    swIdx,        \* index in RiskKeys of the item the for loop is at
    alert_data,   \* the alert candidate of the current item
    alert_content,\* what generate_weather_alert returned for it
    fmtFailed,    \* keys whose LLM request raised in this sweep
    handed,       \* alert records built and given to db.add, in order
    db_alerts,    \* alert records committed to the database, in order
    published,    \* alert payloads given to the WebSocket manager's broadcast_alert
    swRaised,     \* _check_risk_thresholds let an exception out to its caller
    \* ---- collection ticks: _collect_weather_data ----
    apiKey,       \* OPENWEATHER_API_KEY is configured
    colPc,        \* position in the tick
    colIdx,       \* index in cities of the city the for loop is at
    fetchRes,     \* city -> outcome of its GET in this tick ("none": not issued)
    storeRes,     \* city -> outcome of _store_weather_data in this tick ("none": not called)
    weatherDb,    \* cities whose measurement was committed in this tick
    failedLast,   \* cities whose fetch or store failed in the previous tick
    \* ---- _assess_risks on a batch ----
    df,           \* the batch: a sequence of measurements, oldest first
    risks,        \* the returned risks dict
    rPc,          \* "input" before the call, "done" after, "raised" if it raised
    \* ---- analyze_weather_patterns and the analysis tick ----
    analysis,     \* the dict analyze_weather_patterns returned (<<>>: not called)
    anPc,         \* position in _perform_pattern_analysis, or in the direct call
    fit_rounding, \* sign of np.polyfit's rounding error on a series whose exact slope is 0
    recent_locations, \* w.location of each row of recent_data, the tick's query result
    \* ---- generate_weather_prediction and the prediction tick ----
    prediction,   \* the dict generate_weather_prediction returned (<<>>: not called)
    data_list,    \* the rows handed to generate_weather_prediction, in their order
    ptPc,         \* position in _create_predictions, or in the direct call
    ptLoc,        \* index of the location the for loop of _create_predictions is at
    generated,    \* locations a prediction was generated for in this tick
    db_predictions, \* prediction records given to the database in this tick
    \* ---- WebSocketManager ----
    active_connections, \* the keys of self.active_connections
    subscriptions,      \* self.subscriptions: subscription type -> set of client ids
    bcPc,         \* position in broadcast_to_subscribers ("raised": it raised)
    bcType,       \* its subscription_type
    bcTodo,       \* the clients of its copy `subscribers` the for loop has not reached
    bcSent,       \* the clients the broadcast's message was sent to
    bcFailed      \* the clients for which the broadcast's send_text raised

schedVars   == <<running, thread, tpc, cur, runnable, slept, jobs, cpc, failedCad>>
sweepVars   == <<risk_assessment, swPc, swIdx, alert_data, alert_content, fmtFailed,
                 handed, db_alerts, published, swRaised>>
collectVars == <<apiKey, colPc, colIdx, fetchRes, storeRes, weatherDb, failedLast>>
riskVars    == <<df, risks, rPc>>
analysisVars == <<analysis, anPc, fit_rounding, recent_locations>>
predictVars == <<prediction, data_list, ptPc, ptLoc, generated, db_predictions>>
wsVars      == <<active_connections, subscriptions, bcPc, bcType, bcTodo, bcSent, bcFailed>>
vars        == <<schedVars, sweepVars, collectVars, riskVars, analysisVars, predictVars,
                 wsVars>>
notSched    == <<sweepVars, collectVars, riskVars, analysisVars, predictVars, wsVars>>
notSweep    == <<schedVars, collectVars, riskVars, analysisVars, predictVars, wsVars>>
notCollect  == <<schedVars, sweepVars, riskVars, analysisVars, predictVars, wsVars>>
notWs       == <<schedVars, sweepVars, collectVars, riskVars, analysisVars, predictVars>>
notRisk     == <<schedVars, sweepVars, collectVars, analysisVars, predictVars, wsVars>>

(***************************************************************************)
(* Exact rationals.                                                        *)
(***************************************************************************)
Rat(n, d) == [n |-> n, d |-> d]
RLt(a, b) == a.n * b.d < b.n * a.d
RLe(a, b) == a.n * b.d <= b.n * a.d
RGt(a, b) == RLt(b, a)
REq(a, b) == a.n * b.d = b.n * a.d
\* Python's min(a, b) and max(a, b) on two numbers: the first argument wins a tie
RMin(a, b) == IF RLt(b, a) THEN b ELSE a
RMax(a, b) == IF RGt(b, a) THEN b ELSE a
RAdd(a, b) == Rat(a.n * b.d + b.n * a.d, a.d * b.d)
RSub(a, b) == Rat(a.n * b.d - b.n * a.d, a.d * b.d)
\* a / k for a positive integer k
RDivInt(a, k) == Rat(a.n, a.d * k)
RZero == Rat(0, 1)
ROne  == Rat(1, 1)
\* float('nan'): every comparison with it is false and arithmetic on it gives it
RNaN == Rat(0, 0)
IsNaN(a) == a.d = 0

(***************************************************************************)
(* Idle values of each part, for the specifications of the other parts.    *)
(***************************************************************************)
Threads == 1 .. MaxThreads

SchedIdle ==
    /\ running = FALSE
    /\ thread = 0
    /\ tpc = [t \in Threads |-> "unborn"]
    /\ cur = [t \in Threads |-> 0]
    /\ runnable = [t \in Threads |-> {}]
    /\ slept = [t \in Threads |-> FALSE]
    /\ jobs = <<>>
    /\ cpc = "idle"
    /\ failedCad = ""

NoAlert == [alert_type |-> "", severity |-> "", risk_level |-> RZero]
NoContent == [title |-> <<>>, description |-> <<>>, source |-> ""]

SweepIdle ==
    /\ risk_assessment = <<>>
    /\ swPc = "idle"
    /\ swIdx = 0
    /\ alert_data = NoAlert
    /\ alert_content = NoContent
    /\ fmtFailed = {}
    /\ handed = <<>>
    /\ db_alerts = <<>>
    /\ published = <<>>
    /\ swRaised = FALSE

CityIds == 1 .. NumCities

CollectIdle ==
    /\ apiKey = FALSE
    /\ colPc = "idle"
    /\ colIdx = 0
    /\ fetchRes = [c \in CityIds |-> "none"]
    /\ storeRes = [c \in CityIds |-> "none"]
    /\ weatherDb = {}
    /\ failedLast = {}

RiskIdle ==
    /\ df = <<>>
    /\ risks = <<>>
    /\ rPc = "idle"

AnalysisIdle ==
    /\ analysis = <<>>
    /\ anPc = "idle"
    /\ fit_rounding = 0
    /\ recent_locations = <<>>

PredictIdle ==
    /\ prediction = <<>>
    /\ data_list = <<>>
    /\ ptPc = "idle"
    /\ ptLoc = 0
    /\ generated = {}
    /\ db_predictions = <<>>

\* the keys of self.subscriptions, websocket_manager.py lines 10-16
SubscriptionTypes ==
    {"weather_updates", "alerts", "predictions", "blockchain_events", "emergency_events"}

WsIdle ==
    /\ active_connections = {}
    /\ subscriptions = [t \in SubscriptionTypes |-> {}]
    /\ bcPc = "idle"
    /\ bcType = ""
    /\ bcTodo = {}
    /\ bcSent = {}
    /\ bcFailed = {}

(***************************************************************************)
(* WeatherScheduler: start(), stop(), _run_scheduler and the five jobs.    *)
(*                                                                         *)
(* Time is abstracted: the model has no clock.  schedule.run_pending()     *)
(* runs the jobs whose next_run has passed; which jobs those are at a      *)
(* wake-up is a nondeterministic choice of at most MaxDue registered jobs. *)
(* A job registered by the thread itself cannot be due before the thread   *)
(* has slept once (its next_run is one interval after registration).       *)
(***************************************************************************)
\* the five schedule.every(...).do(...) calls, in order; every is in minutes
Cadences == <<
    [cad |-> "collection",  every |-> 5],
    [cad |-> "analysis",    every |-> 15],
    [cad |-> "prediction",  every |-> 30],
    [cad |-> "alert_sweep", every |-> 60],
    [cad |-> "sync",        every |-> 360] >>

CadenceNames == {Cadences[i].cad : i \in 1 .. Len(Cadences)}

\* What a job function does with an exception raised by its body.  Each of the
\* five wraps its whole body in try/except Exception and prints: it returns.
HandlerLeak(cad) == "raises"
Handler(cad) ==
    CASE cad = "collection"  -> "returns"
      [] cad = "analysis"    -> "returns"
      [] cad = "prediction"  -> "returns"
      [] cad = "alert_sweep" -> "returns"
      [] cad = "sync"        -> "returns"

\* threading.Thread.is_alive()
Alive(t) == tpc[t] \notin {"unborn", "exited", "crashed"}

\* start(): a no-op while self.running; otherwise sets the flag and starts a thread
StartUnguarded ==
    /\ cpc = "idle"
    /\ \E t \in Threads :
          /\ tpc[t] = "unborn"
          /\ \A u \in Threads : u < t => tpc[u] # "unborn"
          /\ thread' = t
          /\ tpc' = [tpc EXCEPT ![t] = "register"]
    /\ running' = TRUE
    /\ UNCHANGED <<cur, runnable, slept, jobs, cpc, failedCad>>
    /\ UNCHANGED notSched
Start ==
    /\ cpc = "idle"
    /\ IF running
         THEN UNCHANGED schedVars
         ELSE /\ \E t \in Threads :
                   /\ tpc[t] = "unborn"
                   /\ \A u \in Threads : u < t => tpc[u] # "unborn"
                   /\ thread' = t
                   /\ tpc' = [tpc EXCEPT ![t] = "register"]
              /\ running' = TRUE
              /\ UNCHANGED <<cur, runnable, slept, jobs, cpc, failedCad>>
    /\ UNCHANGED notSched

\* stop(): clears the flag, then joins self.thread when there is one (no timeout)
Stop ==
    /\ cpc = "idle"
    /\ running' = FALSE
    /\ cpc' = IF thread # 0 THEN "joining" ELSE "idle"
    /\ UNCHANGED <<thread, tpc, cur, runnable, slept, jobs, failedCad>>
    /\ UNCHANGED notSched

\* thread.join() returns once the thread has finished
JoinReturn ==
    /\ cpc = "joining"
    /\ ~Alive(thread)
    /\ cpc' = "idle"
    /\ UNCHANGED <<running, thread, tpc, cur, runnable, slept, jobs, failedCad>>
    /\ UNCHANGED notSched

\* _run_scheduler, lines 41-45: the five jobs are appended to schedule's job list
Register(t) ==
    /\ tpc[t] = "register"
    /\ jobs' = jobs \o [i \in 1 .. Len(Cadences) |->
                          [cad |-> Cadences[i].cad, every |-> Cadences[i].every, by |-> t]]
    /\ tpc' = [tpc EXCEPT ![t] = "check"]
    /\ UNCHANGED <<running, thread, cur, runnable, slept, cpc, failedCad>>
    /\ UNCHANGED notSched

\* while self.running:
LoopCheck(t) ==
    /\ tpc[t] = "check"
    /\ tpc' = [tpc EXCEPT ![t] = IF running THEN "wake" ELSE "exited"]
    /\ UNCHANGED <<running, thread, cur, runnable, slept, jobs, cpc, failedCad>>
    /\ UNCHANGED notSched

\* the jobs that can be due when thread t calls run_pending()
MayBeDue(t) == {j \in 1 .. Len(jobs) : slept[t] \/ jobs[j].by # t}

\* schedule.run_pending(): the runnable jobs are collected once, then run in turn
RunPendingBegin(t) ==
    /\ tpc[t] = "wake"
    /\ \E D \in SUBSET MayBeDue(t) :
          /\ Cardinality(D) <= MaxDue
          /\ runnable' = [runnable EXCEPT ![t] = D]
    /\ tpc' = [tpc EXCEPT ![t] = "pending"]
    /\ UNCHANGED <<running, thread, cur, slept, jobs, cpc, failedCad>>
    /\ UNCHANGED notSched

\* run_pending() calls the next runnable job: a tick of its cadence starts
StartTick(t) ==
    /\ tpc[t] = "pending"
    /\ \E j \in runnable[t] :
          /\ cur' = [cur EXCEPT ![t] = j]
          /\ runnable' = [runnable EXCEPT ![t] = @ \ {j}]
    /\ tpc' = [tpc EXCEPT ![t] = "tick"]
    /\ UNCHANGED <<running, thread, slept, jobs, cpc, failedCad>>
    /\ UNCHANGED notSched

\* the tick's body finishes, normally or by raising; the job function's own
\* try/except decides whether the exception leaves it (and then run_pending,
\* _run_scheduler and the thread)
TickFinish(t) ==
    /\ tpc[t] = "tick"
    /\ \E outcome \in {"ok", "raise"} :
          /\ failedCad' = IF outcome = "raise" THEN jobs[cur[t]].cad ELSE failedCad
          /\ tpc' = [tpc EXCEPT ![t] =
                       IF outcome = "raise" /\ Handler(jobs[cur[t]].cad) = "raises"
                         THEN "crashed" ELSE "pending"]
    /\ cur' = [cur EXCEPT ![t] = 0]
    /\ UNCHANGED <<running, thread, runnable, slept, jobs, cpc>>
    /\ UNCHANGED notSched

\* the tick's body blocks for ever in a call that has no timeout (a database
\* query or commit)
TickHang(t) ==
    /\ tpc[t] = "tick"
    /\ tpc' = [tpc EXCEPT ![t] = "hung"]
    /\ UNCHANGED <<running, thread, cur, runnable, slept, jobs, cpc, failedCad>>
    /\ UNCHANGED notSched

\* run_pending() returns when no runnable job is left
RunPendingEnd(t) ==
    /\ tpc[t] = "pending"
    /\ runnable[t] = {}
    /\ tpc' = [tpc EXCEPT ![t] = "sleep"]
    /\ UNCHANGED <<running, thread, cur, runnable, slept, jobs, cpc, failedCad>>
    /\ UNCHANGED notSched

\* time.sleep(60)
Sleep(t) ==
    /\ tpc[t] = "sleep"
    /\ tpc' = [tpc EXCEPT ![t] = "check"]
    /\ slept' = [slept EXCEPT ![t] = TRUE]
    /\ UNCHANGED <<running, thread, cur, runnable, jobs, cpc, failedCad>>
    /\ UNCHANGED notSched

ThreadStep(t) ==
    \/ Register(t)
    \/ LoopCheck(t)
    \/ RunPendingBegin(t)
    \/ StartTick(t)
    \/ TickFinish(t)
    \/ RunPendingEnd(t)
    \/ Sleep(t)

InitSched == SchedIdle /\ WsIdle /\ SweepIdle /\ CollectIdle /\ RiskIdle /\ AnalysisIdle /\ PredictIdle

NextSched ==
    \/ Start
    \/ Stop
    \/ JoinReturn
    \/ \E t \in Threads : ThreadStep(t)
    \/ \E t \in Threads : TickHang(t)

SpecSched == InitSched /\ [][NextSched]_vars

\* The scheduler thread is an OS thread: it keeps taking steps.  Nothing
\* obliges the caller to call start() or stop(), nor a tick to hang.
FairSched ==
    /\ SpecSched
    /\ \A t \in Threads : WF_vars(ThreadStep(t))
    /\ WF_vars(JoinReturn)

(***************************************************************************)
(* The alert sweep: WeatherScheduler._check_risk_thresholds, with          *)
(* AIWeatherService.generate_weather_alert and _generate_template_alert.   *)
(*                                                                         *)
(* Text is a sequence of words; the empty text is <<>>.  An LLM response   *)
(* is a sequence of lines, each a sequence of words.                       *)
(***************************************************************************)
\* the keys of the risks dict, in the order _assess_risks inserts them, which
\* is the order risk_assessment.items() yields them
RiskKeys == <<"flood_risk", "drought_risk", "storm_risk", "extreme_temperature_risk">>
RiskKeySet == {RiskKeys[i] : i \in 1 .. Len(RiskKeys)}
KeyIndex(k) == CHOOSE i \in 1 .. Len(RiskKeys) : RiskKeys[i] = k

\* risk_type.replace("_risk", "")
StripRisk(k) ==
    CASE k = "flood_risk"               -> "flood"
      [] k = "drought_risk"             -> "drought"
      [] k = "storm_risk"               -> "storm"
      [] k = "extreme_temperature_risk" -> "extreme_temperature"

\* high_risk_threshold = 0.7, and the 0.8 of the severity test
high_risk_threshold == Rat(7, 10)
high_severity_bound == Rat(8, 10)

\* if risk_value > high_risk_threshold
BreachesAtLeast(v) == ~RLt(v, high_risk_threshold)
Breaches(v) == RGt(v, high_risk_threshold)

\* "high" if risk_value > 0.8 else "medium"
Severity(v) == IF RGt(v, high_severity_bound) THEN "high" ELSE "medium"

\* alert_data, lines 191-197
AlertData(k, v) ==
    [alert_type |-> StripRisk(k), severity |-> Severity(v), risk_level |-> v]

\* str.title() of the two severities
TitleCase(sev) == IF sev = "high" THEN "High" ELSE "Medium"

\* _generate_template_alert: templates.get(alert_type, templates["storm"])
TemplateAlert(ad) ==
    CASE ad.alert_type = "flood" ->
           [title |-> <<"Flood", TitleCase(ad.severity), "Alert", "for", "Multiple Areas">>,
            description |-> <<"Heavy", "rainfall", "and", "rising", "water", "levels">>,
            source |-> "template"]
      [] ad.alert_type = "drought" ->
           [title |-> <<"Drought", TitleCase(ad.severity), "Alert", "for", "Multiple Areas">>,
            description |-> <<"Extended", "dry", "conditions", "and", "high", "temperatures">>,
            source |-> "template"]
      [] OTHER ->
           [title |-> <<"Severe", "Storm", TitleCase(ad.severity), "Alert", "for", "Multiple Areas">>,
            description |-> <<"Dangerous", "weather", "conditions">>,
            source |-> "template"]

\* the responses the LLM may give: labelled lines, one plain line, labels only
LLMResponses == {
    << <<"Title:", "Flood", "warning">>, <<"Description:", "Heavy", "rain">>,
       <<"Instructions:", "Stay", "inside">>, <<"Duration:", "6h">> >>,
    << <<"Severe", "weather", "expected">> >>,
    << <<"Title:">>, <<"Description:">> >> }

\* what the request does: it raises, or it answers with a response
LLMOutcomes ==
    {[kind |-> "raise", lines |-> <<>>]} \cup {[kind |-> "text", lines |-> r] : r \in LLMResponses}

\* the whole response as one text (alert_text)
RECURSIVE Flatten(_)
Flatten(lines) == IF lines = <<>> THEN <<>> ELSE Head(lines) \o Flatten(Tail(lines))

\* line.strip().replace(label, "").replace(number, "").strip()
Without(line, label, number) == SelectSeq(line, LAMBDA w : w # label /\ w # number)

\* "title" in line.lower(), "description" in line.lower() or "threat" in ...
HasTitle(line) == \E i \in 1 .. Len(line) : line[i] \in {"Title:", "title"}
HasDescription(line) ==
    \E i \in 1 .. Len(line) : line[i] \in {"Description:", "description", "threat"}

\* the parse of lines 303-323, for title and description: the first line is
\* always taken as the title; description starts as the whole text
RECURSIVE ParseLines(_, _, _)
ParseLines(lines, i, result) ==
    IF i > Len(lines) THEN result
    ELSE LET line == lines[i] IN
         ParseLines(lines, i + 1,
            IF HasTitle(line) \/ i = 1
              THEN [result EXCEPT !.title = Without(line, "Title:", "1.")]
            ELSE IF HasDescription(line)
              THEN [result EXCEPT !.description = Without(line, "Description:", "2.")]
            ELSE result)

ParseResponse(lines) ==
    ParseLines(lines, 1,
               [title |-> <<"Weather", "Alert">>, description |-> Flatten(lines),
                source |-> "llm"])

\* generate_weather_alert: the request either raises or answers; on any
\* exception the except clause returns the template alert
GenerateNoFallback(ad, outcome) ==
    IF outcome.kind = "raise"
      THEN [raised |-> TRUE, content |-> NoContent]
      ELSE [raised |-> FALSE, content |-> ParseResponse(outcome.lines)]
GenerateWeatherAlert(ad, outcome) ==
    IF outcome.kind = "raise"
      THEN [raised |-> FALSE, content |-> TemplateAlert(ad)]
      ELSE [raised |-> FALSE, content |-> ParseResponse(outcome.lines)]

\* the sweep's own try/except Exception (lines 185 and 219) prints and returns
SweepHandlerAbsent == "propagates"
SweepHandler == "catches"

\* WeatherAlert(...), lines 202-212; alert_content always has the keys title
\* and description, so the defaults of .get() are never used
NewAlert(ad, content) ==
    [alert_type |-> ad.alert_type, severity |-> ad.severity, location |-> "Multiple Areas",
     title |-> content.title, description |-> content.description,
     ai_confidence |-> ad.risk_level]

\* the scores a sweep is given: on, just above and well clear of both tests
ScoreValues == {Rat(0, 1), Rat(70, 100), Rat(71, 100), Rat(80, 100), Rat(81, 100)}

InitSweep ==
    /\ risk_assessment \in [RiskKeySet -> ScoreValues]
    /\ swPc = "loop"
    /\ swIdx = 1
    /\ alert_data = NoAlert
    /\ alert_content = NoContent
    /\ fmtFailed = {}
    /\ handed = <<>>
    /\ db_alerts = <<>>
    /\ published = <<>>
    /\ swRaised = FALSE
    /\ SchedIdle /\ WsIdle /\ CollectIdle /\ RiskIdle /\ AnalysisIdle /\ PredictIdle

\* for risk_type, risk_value in risk_assessment.items(): if risk_value > 0.7
SweepItem ==
    /\ swPc = "loop"
    /\ swIdx <= Len(RiskKeys)
    /\ LET k == RiskKeys[swIdx]
           v == risk_assessment[k]
       IN IF Breaches(v)
            THEN /\ alert_data' = AlertData(k, v)
                 /\ swPc' = "format"
                 /\ UNCHANGED swIdx
            ELSE /\ swIdx' = swIdx + 1
                 /\ UNCHANGED <<alert_data, swPc>>
    /\ UNCHANGED <<risk_assessment, alert_content, fmtFailed, handed, db_alerts,
                   published, swRaised>>
    /\ UNCHANGED notSweep

\* alert_content = await ai_service.generate_weather_alert(alert_data); an
\* exception leaving the call is caught by the sweep's except (line 219)
FormatAlert ==
    /\ swPc = "format"
    /\ \E outcome \in LLMOutcomes :
          LET r == GenerateWeatherAlert(alert_data, outcome) IN
          /\ fmtFailed' = IF outcome.kind = "raise"
                            THEN fmtFailed \cup {RiskKeys[swIdx]} ELSE fmtFailed
          /\ IF r.raised
               THEN /\ swPc' = "done"
                    /\ swRaised' = (SweepHandler # "catches")
                    /\ UNCHANGED alert_content
               ELSE /\ swPc' = "store"
                    /\ alert_content' = r.content
                    /\ UNCHANGED swRaised
    /\ UNCHANGED <<risk_assessment, swIdx, alert_data, handed, db_alerts, published>>
    /\ UNCHANGED notSweep

\* new_alert = WeatherAlert(...); db.add(new_alert); db.commit().  A raising
\* commit is caught by the sweep's except, which ends the for loop.  Nothing
\* in the sweep calls the WebSocket manager.
StoreAlertTwice ==
    /\ swPc = "store"
    /\ LET new_alert == NewAlert(alert_data, alert_content) IN
       /\ handed' = handed \o <<new_alert, new_alert>>
       /\ db_alerts' = db_alerts \o <<new_alert, new_alert>>
       /\ swIdx' = swIdx + 1
       /\ swPc' = "loop"
    /\ UNCHANGED <<risk_assessment, alert_data, alert_content, fmtFailed, published,
                   swRaised>>
    /\ UNCHANGED notSweep
StoreAlert ==
    /\ swPc = "store"
    /\ LET new_alert == NewAlert(alert_data, alert_content) IN
       /\ handed' = Append(handed, new_alert)
       /\ \E outcome \in {"ok", "raise"} :
             IF outcome = "ok"
               THEN /\ db_alerts' = Append(db_alerts, new_alert)
                    /\ swIdx' = swIdx + 1
                    /\ swPc' = "loop"
                    /\ UNCHANGED swRaised
               ELSE /\ swPc' = "done"
                    /\ swRaised' = (SweepHandler # "catches")
                    /\ UNCHANGED <<db_alerts, swIdx>>
    /\ UNCHANGED <<risk_assessment, alert_data, alert_content, fmtFailed, published>>
    /\ UNCHANGED notSweep

\* the for loop is exhausted: the sweep returns
SweepEnd ==
    /\ swPc = "loop"
    /\ swIdx > Len(RiskKeys)
    /\ swPc' = "done"
    /\ UNCHANGED <<risk_assessment, swIdx, alert_data, alert_content, fmtFailed, handed,
                   db_alerts, published, swRaised>>
    /\ UNCHANGED notSweep

NextSweep == SweepItem \/ FormatAlert \/ StoreAlert \/ SweepEnd

SpecSweep == InitSweep /\ [][NextSweep]_vars

(***************************************************************************)
(* The collection tick: _collect_weather_data, _fetch_weather_for_cities   *)
(* and _store_weather_data.  City c stands for cities[c]; the tick is      *)
(* repeated, as the collection job is every five minutes.                  *)
(***************************************************************************)
\* what the for loop does after the GET of cities[idx] raised: the try/except
\* inside the loop (lines 76 and 86) prints and goes on to the next city
AfterFetchRaiseAbort(idx) == [pc |-> "end", idx |-> idx]
AfterFetchRaise(idx) == [pc |-> "fetch", idx |-> idx + 1]

\* whether _store_weather_data committed the measurement: an exception before
\* or in db.commit() leaves nothing stored, one in the blockchain submission
\* comes after the commit; the function's except (line 129) catches both
Committed(outcome) == outcome \in {"ok", "chain_raise"}

FetchFailed(c) == fetchRes[c] \in {"non200", "raise"}
StoreFailed(c) == storeRes[c] \in {"db_raise", "chain_raise"}

InitCollect ==
    /\ apiKey \in BOOLEAN
    /\ colPc = "start"
    /\ colIdx = 0
    /\ fetchRes = [c \in CityIds |-> "none"]
    /\ storeRes = [c \in CityIds |-> "none"]
    /\ weatherDb = {}
    /\ failedLast = {}
    /\ SchedIdle /\ WsIdle /\ SweepIdle /\ RiskIdle /\ AnalysisIdle /\ PredictIdle

\* _fetch_weather_for_cities, lines 69-74: without an API key nothing is fetched
CollectBegin ==
    /\ colPc = "start"
    /\ IF apiKey
         THEN colPc' = "fetch" /\ colIdx' = 1
         ELSE colPc' = "end" /\ colIdx' = 0
    /\ UNCHANGED <<apiKey, fetchRes, storeRes, weatherDb, failedLast>>
    /\ UNCHANGED notCollect

\* response = await client.get(...): the request for city c is sent and awaited
FetchIssue(c) ==
    /\ colPc = "fetch"
    /\ c = colIdx
    /\ c <= NumCities
    /\ fetchRes' = [fetchRes EXCEPT ![c] = "pending"]
    /\ colPc' = "await"
    /\ UNCHANGED <<apiKey, colIdx, storeRes, weatherDb, failedLast>>
    /\ UNCHANGED notCollect

\* the awaited GET completes: status 200, another status, or an exception
\* (a timeout or a connection error)
FetchDone ==
    /\ colPc = "await"
    /\ \E outcome \in {"200", "non200", "raise"} :
          /\ fetchRes' = [fetchRes EXCEPT ![colIdx] = outcome]
          /\ CASE outcome = "200" ->
                    colPc' = "store" /\ UNCHANGED colIdx
               [] outcome = "non200" ->
                    colPc' = "fetch" /\ colIdx' = colIdx + 1
               [] outcome = "raise" ->
                    /\ colPc' = AfterFetchRaise(colIdx).pc
                    /\ colIdx' = AfterFetchRaise(colIdx).idx
    /\ UNCHANGED <<apiKey, storeRes, weatherDb, failedLast>>
    /\ UNCHANGED notCollect

\* await self._store_weather_data(data): it never raises to the loop
StoreWeather ==
    /\ colPc = "store"
    /\ \E outcome \in {"ok", "db_raise", "chain_raise"} :
          /\ storeRes' = [storeRes EXCEPT ![colIdx] = outcome]
          /\ weatherDb' = IF Committed(outcome) THEN weatherDb \cup {colIdx} ELSE weatherDb
    /\ colIdx' = colIdx + 1
    /\ colPc' = "fetch"
    /\ UNCHANGED <<apiKey, fetchRes, failedLast>>
    /\ UNCHANGED notCollect

\* the for loop is exhausted: the tick returns
CollectEnd ==
    /\ colPc = "fetch"
    /\ colIdx > NumCities
    /\ colPc' = "end"
    /\ UNCHANGED <<apiKey, colIdx, fetchRes, storeRes, weatherDb, failedLast>>
    /\ UNCHANGED notCollect

\* five minutes later the job runs again, over the same list of cities
NextCollectTick ==
    /\ colPc = "end"
    /\ failedLast' = {c \in CityIds : FetchFailed(c) \/ StoreFailed(c)}
    /\ colPc' = "start"
    /\ colIdx' = 0
    /\ fetchRes' = [c \in CityIds |-> "none"]
    /\ storeRes' = [c \in CityIds |-> "none"]
    /\ weatherDb' = {}
    /\ UNCHANGED apiKey
    /\ UNCHANGED notCollect

NextCollect ==
    \/ CollectBegin
    \/ \E c \in CityIds : FetchIssue(c)
    \/ FetchDone
    \/ StoreWeather
    \/ CollectEnd
    \/ NextCollectTick

SpecCollect == InitCollect /\ [][NextCollect]_vars

(***************************************************************************)
(* AIWeatherService._assess_risks.  A batch (the DataFrame df) is a record *)
(* [cols |-> the columns it has, rows |-> its measurements, first to last, *)
(*  nulls |-> the columns that hold a null in every measurement,           *)
(*  none_obj |-> those nulls are None (an object column), not float NaN];  *)
(* a measurement gives an integer for each numeric field, which is not     *)
(* read when the field's column is in nulls.                               *)
(***************************************************************************)
\* self.prediction_models, lines 51-72
flood_threshold_precipitation == 50
drought_threshold_precipitation == 5
drought_threshold_temperature == 35
storm_threshold_wind_speed == 60
storm_threshold_pressure_drop == 20
heat_threshold == 40
cold_threshold == -20
\* the literal 25.0 of the drought temperature test, line 205
drought_base_temperature == 25
\* the tail windows of lines 193, 199, 210, 211 and 219
flood_window == 24
drought_window == 720
storm_wind_window == 6
storm_pressure_window == 3
temperature_window == 6

RiskFields == {"temperature", "pressure", "wind_speed", "precipitation"}

\* the columns of a batch built from the scheduler's data_list that the
\* analysis functions look at
Columns == RiskFields \cup {"humidity", "timestamp"}

\* Series.tail(n): the last n values, or all of them when there are fewer
HeadN(s, n) == IF Len(s) <= n THEN s ELSE SubSeq(s, 1, n)
TailN(s, n) == IF Len(s) <= n THEN s ELSE SubSeq(s, Len(s) - n + 1, Len(s))

\* df[col] as a sequence of values
Column(d, col) == [i \in 1 .. Len(d.rows) |-> d.rows[i][col]]

RECURSIVE SumSeq(_)
SumSeq(s) == IF s = <<>> THEN 0 ELSE Head(s) + SumSeq(Tail(s))

\* Series.max() of a non-empty sequence
MaxSeq(s) == CHOOSE m \in {s[i] : i \in 1 .. Len(s)} : \A i \in 1 .. Len(s) : s[i] <= m

\* Series.mean() of a non-empty sequence
MeanSeq(s) == Rat(SumSeq(s), Len(s))

\* df[col].tail(n).sum(), .mean() and .max(): nulls are skipped, so a column
\* of nulls sums to 0 and has mean and max NaN
TailSum(d, col, n) ==
    IF col \in d.nulls THEN RZero ELSE Rat(SumSeq(TailN(Column(d, col), n)), 1)
TailMean(d, col, n) ==
    IF col \in d.nulls THEN RNaN ELSE MeanSeq(TailN(Column(d, col), n))
TailMax(d, col, n) ==
    IF col \in d.nulls THEN RNaN ELSE Rat(MaxSeq(TailN(Column(d, col), n)), 1)

\* (series > x).sum() and (series < x).sum()
CountAbove(s, x) == Cardinality({i \in 1 .. Len(s) : s[i] > x})
CountBelow(s, x) == Cardinality({i \in 1 .. Len(s) : s[i] < x})

\* lines 192-195
FloodRiskWholeBatch(d) ==
    RMin(ROne, RDivInt(TailSum(d, "precipitation", Len(d.rows)),
                       flood_threshold_precipitation))
FloodRisk(d) ==
    LET recent_precip == TailSum(d, "precipitation", flood_window)
    IN RMin(ROne, RDivInt(recent_precip, flood_threshold_precipitation))

\* lines 198-206
DroughtRisk(d) ==
    LET avg_precip == TailMean(d, "precipitation", drought_window)
        avg_temp == TailMean(d, "temperature", drought_window)
        precip_risk ==
            RSub(ROne, RMin(ROne, RDivInt(avg_precip, drought_threshold_precipitation)))
        temp_risk ==
            RMin(ROne,
                 RDivInt(RMax(RZero, RSub(avg_temp, Rat(drought_base_temperature, 1))),
                         drought_threshold_temperature - drought_base_temperature))
    IN RDivInt(RAdd(precip_risk, temp_risk), 2)

\* lines 209-215
StormRisk(d) ==
    LET max_wind == TailMax(d, "wind_speed", storm_wind_window)
        last3 == TailN(Column(d, "pressure"), storm_pressure_window)
        pressure_drop == IF "pressure" \in d.nulls THEN RNaN
                         ELSE Rat(last3[1] - last3[Len(last3)], 1)
        wind_risk == RMin(ROne, RDivInt(max_wind, storm_threshold_wind_speed))
        pressure_risk ==
            RMin(ROne, RDivInt(RMax(RZero, pressure_drop), storm_threshold_pressure_drop))
    IN RMax(wind_risk, pressure_risk)

\* lines 218-225
ExtremeTemperatureRisk(d) ==
    LET recent_temps == TailN(Column(d, "temperature"), temperature_window)
        isnull == "temperature" \in d.nulls
        heat_risk == Rat(IF isnull THEN 0 ELSE CountAbove(recent_temps, heat_threshold),
                         Len(recent_temps))
        cold_risk == Rat(IF isnull THEN 0 ELSE CountBelow(recent_temps, cold_threshold),
                         Len(recent_temps))
    IN RMax(heat_risk, cold_risk)

\* df['pressure'].tail(3).iloc[0] - df['pressure'].tail(3).iloc[-1] on a column
\* of None is None - None, a TypeError that _assess_risks does not catch
AssessRaises(d) ==
    /\ Len(d.rows) > 0
    /\ {"wind_speed", "pressure"} \subseteq d.cols
    /\ "pressure" \in d.nulls
    /\ d.none_obj

\* _assess_risks, lines 179-227, when it returns
AssessRisks(d) ==
    LET zero == [k \in RiskKeySet |-> RZero] IN
    IF Len(d.rows) = 0 THEN zero
    ELSE [k \in RiskKeySet |->
            CASE k = "flood_risk" ->
                   IF "precipitation" \in d.cols THEN FloodRisk(d) ELSE RZero
              [] k = "drought_risk" ->
                   IF {"precipitation", "temperature"} \subseteq d.cols
                     THEN DroughtRisk(d) ELSE RZero
              [] k = "storm_risk" ->
                   IF {"wind_speed", "pressure"} \subseteq d.cols
                     THEN StormRisk(d) ELSE RZero
              [] k = "extreme_temperature_risk" ->
                   IF "temperature" \in d.cols THEN ExtremeTemperatureRisk(d) ELSE RZero]

\* the measurements and batches the function is applied to
Measurements ==
    [temperature : {-30, 30, 45}, humidity : {50}, pressure : {990, 1030},
     wind_speed : {0, 100}, precipitation : {-10, 3, 10000}]

ColumnSets ==
    {Columns, Columns \ {"precipitation"}, Columns \ {"wind_speed"},
     Columns \ {"temperature"}, Columns \ {"pressure"}, Columns \ {"timestamp"}}

\* the measurements of the batches with a null column and of the long batches
PlainMeasurements ==
    [temperature : {30}, humidity : {50}, pressure : {1000, 1010},
     wind_speed : {0, 30, 100}, precipitation : {1, 3}]

\* if len(recent_data) > 10, scheduler.py line 155
min_analysis_records == 10

\* lengths that reach past each tail window and past the analysis guard
LongLens ==
    {storm_wind_window + 1, min_analysis_records, min_analysis_records + 1, flood_window,
     flood_window + 1}

\* a short batch of any measurements, with every column or one column absent
ShortBatch(c, r) == [cols |-> c, nulls |-> {}, none_obj |-> FALSE, rows |-> r]

\* a short batch in which column f is null in every measurement
NullBatch(f, b, r) == [cols |-> Columns, nulls |-> {f}, none_obj |-> b, rows |-> r]

\* a long batch: a first measurement, a last one, and one repeated between them
LongBatch(n, a, m, z) ==
    [cols |-> Columns, nulls |-> {}, none_obj |-> FALSE,
     rows |-> [i \in 1 .. n |-> IF i = 1 THEN a ELSE IF i = n THEN z ELSE m]]

\* d is one of the batches the functions are applied to
BatchInput(d) ==
    \/ \E n \in 0 .. MaxLen : \E c \in ColumnSets, r \in [1 .. n -> Measurements] :
          d = ShortBatch(c, r)
    \/ \E n \in 0 .. MaxLen :
          \E f \in RiskFields, b \in BOOLEAN, r \in [1 .. n -> PlainMeasurements] :
             d = NullBatch(f, b, r)
    \/ \E n \in LongLens : \E a \in PlainMeasurements, m \in PlainMeasurements,
                                z \in PlainMeasurements :
          d = LongBatch(n, a, m, z)

InitRisk ==
    /\ BatchInput(df)
    /\ risks = <<>>
    /\ rPc = "input"
    /\ SchedIdle /\ WsIdle /\ SweepIdle /\ CollectIdle /\ AnalysisIdle /\ PredictIdle

\* risks = await self._assess_risks(df)
Assess ==
    /\ rPc = "input"
    /\ IF AssessRaises(df)
         THEN risks' = <<>> /\ rPc' = "raised"
         ELSE risks' = AssessRisks(df) /\ rPc' = "done"
    /\ UNCHANGED df
    /\ UNCHANGED notRisk

NextRisk == Assess

SpecRisk == InitRisk /\ [][NextRisk]_vars

(***************************************************************************)
(* AIWeatherService.analyze_weather_patterns with _analyze_trends and      *)
(* _detect_anomalies.  They are applied to batches without null values,    *)
(* whose rows are in timestamp order.  A dict is a record; its field keys  *)
(* is the set of keys the dict has.                                        *)
(***************************************************************************)
\* numerical_columns, lines 99 and 153
NumericalColumns == <<"temperature", "humidity", "pressure", "wind_speed", "precipitation">>

RMulInt(a, k) == Rat(a.n * k, a.d)
RAbs(a) == IF a.n < 0 THEN Rat(-a.n, a.d) ELSE a

\* Series.quantile(num/4) with linear interpolation, on a non-empty sequence
Quantile(x, num) ==
    LET sorted == SortSeq(x, LAMBDA a, b : a < b)
        pos4 == (Len(x) - 1) * num
        lo == pos4 \div 4
        r == pos4 % 4
    IN Rat(4 * sorted[lo + 1]
             + (IF r > 0 THEN r * (sorted[lo + 2] - sorted[lo + 1]) ELSE 0), 4)

\* Q1, Q3, IQR and the two bounds of a column, lines 158-162
AnomalyBoundsInward(x) ==
    LET Q1 == Quantile(x, 1)
        Q3 == Quantile(x, 3)
        IQR == RSub(Q3, Q1)
    IN [Q1 |-> Q1, Q3 |-> Q3, IQR |-> IQR,
        lower_bound |-> RAdd(Q1, RDivInt(RMulInt(IQR, 3), 2)),
        upper_bound |-> RSub(Q3, RDivInt(RMulInt(IQR, 3), 2))]
AnomalyBoundsHalfFence(x) ==
    LET Q1 == Quantile(x, 1)
        Q3 == Quantile(x, 3)
        IQR == RSub(Q3, Q1)
    IN [Q1 |-> Q1, Q3 |-> Q3, IQR |-> IQR,
        lower_bound |-> RSub(Q1, RDivInt(IQR, 2)),
        upper_bound |-> RAdd(Q3, RDivInt(IQR, 2))]
AnomalyBounds(x) ==
    LET Q1 == Quantile(x, 1)
        Q3 == Quantile(x, 3)
        IQR == RSub(Q3, Q1)
    IN [Q1 |-> Q1, Q3 |-> Q3, IQR |-> IQR,
        lower_bound |-> RSub(Q1, RDivInt(RMulInt(IQR, 3), 2)),
        upper_bound |-> RAdd(Q3, RDivInt(RMulInt(IQR, 3), 2))]

\* the anomalies of one column, in index order, lines 164-175
ColumnAnomalies(d, col) ==
    LET x == Column(d, col)
        b == AnomalyBounds(x)
        Out(i) == RLt(Rat(x[i], 1), b.lower_bound) \/ RGt(Rat(x[i], 1), b.upper_bound)
        idx == SelectSeq([i \in 1 .. Len(x) |-> i], Out)
    IN [j \in 1 .. Len(idx) |->
          [column |-> col, index |-> idx[j], value |-> x[idx[j]],
           expected_range |-> <<b.lower_bound, b.upper_bound>>,
           severity |->
              IF \/ RLt(Rat(x[idx[j]], 1), RSub(b.lower_bound, b.IQR))
                 \/ RGt(Rat(x[idx[j]], 1), RAdd(b.upper_bound, b.IQR))
                THEN "high" ELSE "medium"]]

\* _detect_anomalies, lines 149-177
RECURSIVE AnomaliesFrom(_, _)
AnomaliesFrom(d, c) ==
    IF c > Len(NumericalColumns) THEN <<>>
    ELSE (IF NumericalColumns[c] \in d.cols
            THEN ColumnAnomalies(d, NumericalColumns[c]) ELSE <<>>)
         \o AnomaliesFrom(d, c + 1)

DetectAnomalies(d) == AnomaliesFrom(d, 1)

\* the least-squares slope of x against its positions 0 .. n-1, n >= 2
ExactSlope(x) ==
    LET n == Len(x)
        pos == [i \in 1 .. n |-> i - 1]
        sxy == SumSeq([i \in 1 .. n |-> pos[i] * x[i]])
        sx == SumSeq(pos)
        sxx == SumSeq([i \in 1 .. n |-> pos[i] * pos[i]])
    IN Rat(n * sxy - sx * SumSeq(x), n * sxx - sx * sx)

\* np.polyfit solves the least-squares problem in floating point (an SVD of
\* the scaled Vandermonde matrix).  On the integers the model draws, a
\* non-zero exact slope keeps its sign; an all-zero series gives exactly 0.0;
\* for any other series whose exact slope is 0 the computed slope is 0 only
\* up to a rounding error, whose sign is fit_rounding.
polyfit_eps_inverse == 1000000
AllZero(x) == \A i \in 1 .. Len(x) : x[i] = 0
Flat(x) == Len(x) > 1 /\ ExactSlope(x).n = 0 /\ ~AllZero(x)

\* np.polyfit(range(n), values, 1)[0], n >= 2
Slope(x) ==
    IF Flat(x) THEN Rat(fit_rounding, polyfit_eps_inverse) ELSE ExactSlope(x)

\* one entry of trends, lines 131-135 and 140-144
TrendZeroIncreasing(x, bound) ==
    LET slope == Slope(x)
    IN [direction |-> IF RLt(slope, RZero) THEN "decreasing" ELSE "increasing",
        rate |-> slope,
        significance |-> IF RGt(RAbs(slope), bound) THEN "high" ELSE "low"]
Trend(x, bound) ==
    LET slope == Slope(x)
    IN [direction |-> IF RGt(slope, RZero) THEN "increasing" ELSE "decreasing",
        rate |-> slope,
        significance |-> IF RGt(RAbs(slope), bound) THEN "high" ELSE "low"]

\* the keys of trends: _analyze_trends, lines 121-147
TrendKeysAnyLength(d) ==
    IF "timestamp" \in d.cols
      THEN {"temperature", "precipitation"} \cap d.cols ELSE {}
TrendKeys(d) ==
    IF "timestamp" \in d.cols /\ Len(d.rows) > 1
      THEN {"temperature", "precipitation"} \cap d.cols ELSE {}

AnalyzeTrends(d) ==
    [col \in TrendKeys(d) |->
        Trend(Column(d, col), IF col = "temperature" THEN Rat(1, 2) ELSE Rat(1, 1))]

\* the keys of the analysis dict of lines 83-97
AnalysisKeys == {"summary", "statistics", "trends", "anomalies", "risk_assessment"}

\* lines 80-119: the analysis of a non-empty batch; statistics is kept as the
\* set of columns it has an entry for
AnalysisOf(d) ==
    [keys |-> AnalysisKeys,
     statistics |-> {NumericalColumns[c] : c \in 1 .. Len(NumericalColumns)} \cap d.cols,
     trends |-> AnalyzeTrends(d),
     anomalies |-> DetectAnomalies(d),
     risk_assessment |-> AssessRisks(d)]

\* analyze_weather_patterns, lines 74-119, when it returns
AnalyzeEmptyAsFull(d) ==
    IF Len(d.rows) = 0
      THEN [keys |-> AnalysisKeys, statistics |-> {}, trends |-> <<>>, anomalies |-> <<>>,
            risk_assessment |-> [k \in RiskKeySet |-> RZero]]
      ELSE AnalysisOf(d)
AnalyzeWeatherPatterns(d) ==
    IF Len(d.rows) = 0 THEN [keys |-> {"error"}] ELSE AnalysisOf(d)

\* the values and the longest length of the one-column series the analyzer
\* is applied to
SeriesValues == {0, 10, 20, 100}
MaxSeries == 5

\* a batch whose temperature column is the series v and whose other columns
\* are constant
SeriesBatch(v) ==
    [cols |-> Columns, nulls |-> {}, none_obj |-> FALSE,
     rows |-> [i \in 1 .. Len(v) |->
                 [temperature |-> v[i], humidity |-> 50, pressure |-> 1000,
                  wind_speed |-> 0, precipitation |-> 0]]]

\* the batch has a column whose trend is fitted and whose exact slope is 0
HasFlatSeries(d) ==
    \E col \in TrendKeys(d) : Flat(Column(d, col))

\* the measurements of the short batches the analyzer is applied to
AnalyzerMeasurements ==
    [temperature : {-30, 45}, humidity : {50}, pressure : {990, 1030},
     wind_speed : {0, 100}, precipitation : {3, 10000}]

\* the measurements of the long batches the analyzer is applied to
LongMeasurements ==
    [temperature : {30}, humidity : {50}, pressure : {1000},
     wind_speed : {0, 100}, precipitation : {1, 3}]

AnalyzerInput(d) ==
    \/ \E n \in 0 .. MaxLen : \E c \in ColumnSets, r \in [1 .. n -> AnalyzerMeasurements] :
          d = ShortBatch(c, r)
    \/ \E n \in LongLens : \E a \in LongMeasurements, m \in LongMeasurements,
                              z \in LongMeasurements :
          d = LongBatch(n, a, m, z)
    \/ \E n \in 0 .. MaxSeries : \E v \in [1 .. n -> SeriesValues] : d = SeriesBatch(v)

\* The rows the query of lines 151-153 returns when k locations have been
\* collected: the collection tick stores one row per location in turn, and
\* the query filters on the timestamp only, so it returns the rows of all k.
RecentLocations(k, n) == [i \in 1 .. n |-> ((i - 1) % k) + 1]

\* anPc = "call": analyze_weather_patterns is called on df directly;
\* anPc = "query": an analysis tick whose query returns the rows of df
InitAnalysis ==
    /\ AnalyzerInput(df)
    /\ risks = <<>>
    /\ rPc = "idle"
    /\ analysis = <<>>
    /\ anPc \in {"call", "query"}
    /\ fit_rounding \in (IF HasFlatSeries(df) THEN {-1, 0, 1} ELSE {0})
    /\ IF anPc = "query"
         THEN \E k \in 1 .. NumLocations : recent_locations = RecentLocations(k, Len(df.rows))
         ELSE recent_locations = <<>>
    /\ SchedIdle /\ WsIdle /\ SweepIdle /\ CollectIdle /\ PredictIdle

\* analysis = await ai_service.analyze_weather_patterns(df)
Analyze ==
    /\ anPc = "call"
    /\ IF AssessRaises(df)
         THEN anPc' = "raised" /\ UNCHANGED analysis
         ELSE anPc' = "returned" /\ analysis' = AnalyzeWeatherPatterns(df)
    /\ UNCHANGED <<fit_rounding, recent_locations>>
    /\ UNCHANGED <<wsVars, schedVars, sweepVars, collectVars, riskVars, predictVars>>

\* _perform_pattern_analysis, lines 146-155: recent_data = db.query(...).all()
\* and the test len(recent_data) > 10; else db.close()
AnalysisQueryAtLeast ==
    /\ anPc = "query"
    /\ anPc' = IF Len(df.rows) >= min_analysis_records THEN "analyze" ELSE "done"
    /\ UNCHANGED <<analysis, fit_rounding, recent_locations>>
    /\ UNCHANGED <<wsVars, schedVars, sweepVars, collectVars, riskVars, predictVars>>
AnalysisQuery ==
    /\ anPc = "query"
    /\ anPc' = IF Len(df.rows) > min_analysis_records THEN "analyze" ELSE "done"
    /\ UNCHANGED <<analysis, fit_rounding, recent_locations>>
    /\ UNCHANGED <<wsVars, schedVars, sweepVars, collectVars, riskVars, predictVars>>

\* lines 157-175: the analyzer is called and _check_risk_thresholds is entered
\* with its risk_assessment; an exception of the analyzer is caught at line 180
AnalysisRun ==
    /\ anPc = "analyze"
    /\ IF AssessRaises(df)
         THEN /\ anPc' = "done"
              /\ UNCHANGED <<analysis, sweepVars>>
         ELSE /\ analysis' = AnalyzeWeatherPatterns(df)
              /\ risk_assessment' = analysis'.risk_assessment
              /\ swPc' = "loop"
              /\ swIdx' = 1
              /\ anPc' = "sweep"
              /\ UNCHANGED <<alert_data, alert_content, fmtFailed, handed, db_alerts,
                             published, swRaised>>
    /\ UNCHANGED <<fit_rounding, recent_locations>>
    /\ UNCHANGED <<wsVars, schedVars, collectVars, riskVars, predictVars>>

\* the sweep has returned: db.close(), line 178
AnalysisEnd ==
    /\ anPc = "sweep"
    /\ swPc = "done"
    /\ anPc' = "done"
    /\ UNCHANGED <<analysis, fit_rounding, recent_locations>>
    /\ UNCHANGED <<wsVars, schedVars, sweepVars, collectVars, riskVars, predictVars>>

NextAnalysis ==
    \/ Analyze
    \/ AnalysisQuery
    \/ AnalysisRun
    \/ AnalysisEnd
    \/ SweepItem
    \/ FormatAlert
    \/ StoreAlert
    \/ SweepEnd

SpecAnalysis == InitAnalysis /\ [][NextAnalysis]_vars

(***************************************************************************)
(* AIWeatherService.generate_weather_prediction and the prediction tick,   *)
(* WeatherScheduler._create_predictions.  The confidence entries, which    *)
(* need a standard deviation, are not part of the modelled dict.           *)
(***************************************************************************)
\* if len(df) >= 3, ai_service.py line 247, and tail(3) of line 252
min_prediction_points == 3
\* if len(historical_data) >= 10, scheduler.py line 252
min_prediction_records == 10
\* .limit(100), scheduler.py line 250
history_limit == 100

\* lines 252-254: recent_values = df[param].tail(3).values;
\* trend = (recent_values[-1] - recent_values[0]) / len(recent_values)
TrendFromLastTwo(recent_values) ==
    Rat(recent_values[Len(recent_values)] - recent_values[Len(recent_values) - 1],
        Len(recent_values))
TrendOf(recent_values) ==
    Rat(recent_values[Len(recent_values)] - recent_values[1], Len(recent_values))

\* one entry of predictions, lines 252-260; a column of NaN predicts NaN
ParamPrediction(d, param) ==
    IF param \in d.nulls
      THEN [value |-> RNaN, trend |-> "decreasing"]
      ELSE LET recent_values == TailN(Column(d, param), min_prediction_points)
               trend == TrendOf(recent_values)
           IN [value |-> RAdd(Rat(recent_values[Len(recent_values)], 1), trend),
               trend |-> IF RGt(trend, RZero) THEN "increasing" ELSE "decreasing"]

\* the params of the loop of line 250 that are columns of the batch
PredictedParams(d) ==
    IF Len(d.rows) >= min_prediction_points
      THEN {NumericalColumns[c] : c \in 1 .. Len(NumericalColumns)} \cap d.cols
      ELSE {}

\* recent_values[-1] - recent_values[0] on a column of None, and the risk
\* scoring of line 263, raise; generate_weather_prediction catches nothing
PredictionRaises(d) ==
    /\ Len(d.rows) > 0
    /\ \/ d.none_obj /\ PredictedParams(d) \cap d.nulls # {}
       \/ AssessRaises(d)

\* the keys of the prediction dict, lines 238-245 and 264
PredictionKeys ==
    {"location", "prediction_time", "forecast_hours", "predictions", "confidence",
     "model_version", "risk_assessment"}

\* generate_weather_prediction, lines 229-266, when it returns
GeneratePredictionNoGuard(d) ==
    [keys |-> PredictionKeys,
     predictions |-> [param \in PredictedParams(d) |-> ParamPrediction(d, param)],
     risk_assessment |-> AssessRisks(d)]
GenerateWeatherPrediction(d) ==
    IF Len(d.rows) = 0 THEN [keys |-> {"error"}]
    ELSE [keys |-> PredictionKeys,
          predictions |-> [param \in PredictedParams(d) |-> ParamPrediction(d, param)],
          risk_assessment |-> AssessRisks(d)]

\* the temperatures of the series the predictor is applied to
PredictValues == {20, 22, 25}

PredictorInput(d) ==
    \/ AnalyzerInput(d)
    \/ \E n \in (0 .. MaxLen) \cup {min_prediction_points} :
          \E f \in RiskFields, b \in BOOLEAN, r \in [1 .. n -> PlainMeasurements] :
             d = NullBatch(f, b, r)
    \/ \E v \in [1 .. min_prediction_points -> PredictValues] : d = SeriesBatch(v)

\* ptPc = "call": generate_weather_prediction is called on df directly;
\* ptPc = "tick": a prediction tick, whose queries are answered at each step
InitPredict ==
    /\ \/ PredictorInput(df) /\ ptPc = "call"
       \/ df = <<>> /\ ptPc = "tick"
    /\ risks = <<>>
    /\ rPc = "idle"
    /\ prediction = <<>>
    /\ data_list = <<>>
    /\ ptLoc = 0
    /\ generated = {}
    /\ db_predictions = <<>>
    /\ SchedIdle /\ WsIdle /\ SweepIdle /\ CollectIdle /\ AnalysisIdle

\* prediction = await ai_service.generate_weather_prediction(location, df)
Predict ==
    /\ ptPc = "call"
    /\ data_list' = df.rows
    /\ IF PredictionRaises(df)
         THEN ptPc' = "raised" /\ UNCHANGED prediction
         ELSE ptPc' = "returned" /\ prediction' = GenerateWeatherPrediction(df)
    /\ UNCHANGED <<ptLoc, generated, db_predictions>>
    /\ UNCHANGED <<wsVars, schedVars, sweepVars, collectVars, riskVars, analysisVars>>

\* locations[:5], scheduler.py line 245
locations_per_run == 5

\* the locations the for loop of _create_predictions visits
LocationsInTick ==
    1 .. (IF NumLocations < locations_per_run THEN NumLocations ELSE locations_per_run)

\* the measurements of the rows a location has in the database
TickMeasurements ==
    [temperature : {20, 25}, humidity : {50}, pressure : {1000}, wind_speed : {0},
     precipitation : {0}]

\* how many rows a location has in the last 7 days: around the test of line 252
HistoryLens ==
    {min_prediction_records - 1, min_prediction_records, min_prediction_records + 1}

\* the rows of one location, oldest first: row i was measured at time i
StoredRows(n, a, m, z) ==
    [i \in 1 .. n |->
        LET w == IF i = 1 THEN a ELSE IF i = n THEN z ELSE m
        IN [temperature |-> w.temperature, humidity |-> w.humidity,
            pressure |-> w.pressure, wind_speed |-> w.wind_speed,
            precipitation |-> w.precipitation, timestamp |-> i]]

\* .order_by(WeatherData.timestamp.desc()).limit(100).all(), line 250
HistoricalData(stored) ==
    LET n == Len(stored)
        desc == [i \in 1 .. n |-> stored[n - i + 1]]
    IN SubSeq(desc, 1, IF n < history_limit THEN n ELSE history_limit)

\* pd.DataFrame(historical_data) of ai_service.py line 235
FrameOf(rows) == [cols |-> Columns, nulls |-> {}, none_obj |-> FALSE, rows |-> rows]

\* lines 236-245: the query of the distinct locations
PredictTickBegin ==
    /\ ptPc = "tick"
    /\ ptPc' = "loop"
    /\ ptLoc' = 1
    /\ UNCHANGED <<prediction, data_list, generated, db_predictions>>
    /\ UNCHANGED <<wsVars, schedVars, sweepVars, collectVars, riskVars, analysisVars>>

\* one pass of the for loop, lines 245-273: the query for the location, the
\* test len(historical_data) >= 10, the call of the predictor and the print;
\* nothing is given to the database.  An exception ends the tick (line 275).
PredictLocation ==
    /\ ptPc = "loop"
    /\ ptLoc \in LocationsInTick
    /\ \E n \in HistoryLens : \E a \in TickMeasurements, m \in TickMeasurements,
                                 z \in TickMeasurements :
          LET historical_data == HistoricalData(StoredRows(n, a, m, z)) IN
          /\ data_list' = IF Len(historical_data) >= min_prediction_records
                             THEN historical_data ELSE data_list
          /\ IF Len(historical_data) >= min_prediction_records
               THEN IF PredictionRaises(FrameOf(historical_data))
                      THEN /\ ptPc' = "done"
                           /\ UNCHANGED <<prediction, generated, ptLoc>>
                      ELSE /\ prediction' = GenerateWeatherPrediction(FrameOf(historical_data))
                           /\ generated' = generated \cup {ptLoc}
                           /\ ptLoc' = ptLoc + 1
                           /\ UNCHANGED ptPc
               ELSE /\ ptLoc' = ptLoc + 1
                    /\ UNCHANGED <<prediction, generated, ptPc>>
    /\ UNCHANGED db_predictions
    /\ UNCHANGED <<wsVars, schedVars, sweepVars, collectVars, riskVars, analysisVars>>

\* the for loop is exhausted: db.close(), line 273
PredictTickEnd ==
    /\ ptPc = "loop"
    /\ ptLoc \notin LocationsInTick
    /\ ptPc' = "done"
    /\ UNCHANGED <<prediction, data_list, ptLoc, generated, db_predictions>>
    /\ UNCHANGED <<wsVars, schedVars, sweepVars, collectVars, riskVars, analysisVars>>

NextPredict == Predict \/ PredictTickBegin \/ PredictLocation \/ PredictTickEnd

SpecPredict == InitPredict /\ [][NextPredict]_vars

(***************************************************************************)
(* Claims about the scheduler.                                             *)
(***************************************************************************)
\* C4: a failure in a tick of any cadence is caught inside that tick: no
\* scheduler thread is ever ended by an exception, and a thread that is in
\* run_pending() after a tick has failed goes on to run the remaining due ticks
\* and reaches its next wake-up (or leaves the loop because stop() cleared the
\* flag), unless a later tick blocks for ever.
C4_FailureIsolated ==
    /\ [](\A t \in Threads : tpc[t] # "crashed")
    /\ \A t \in Threads :
          (failedCad # "" /\ tpc[t] = "pending")
             ~> (tpc[t] \in {"wake", "exited", "hung"})

\* a tick of another cadence is executing after a tick has failed
C4_Witness ==
    /\ failedCad # ""
    /\ \E t \in Threads : tpc[t] = "tick" /\ jobs[cur[t]].cad # failedCad

\* C7: once stop() has been called (self.running is False) no tick is started,
\* and the call of stop() leaves a tick that is executing as it is.
C7_NoTickAfterStop ==
    [][ /\ ~running => \A t \in Threads : tpc'[t] = "tick" => tpc[t] = "tick"
        /\ (running /\ ~running') =>
              \A t \in Threads : tpc[t] = "tick" => tpc'[t] = "tick" ]_vars

\* C8: a call of stop() eventually returns, whatever the in-flight tick does.
C8_StopReturns == (cpc = "joining") ~> (cpc = "idle")

\* C9: while a tick of one cadence is executing, a due tick of a different
\* cadence can start.
C9_CadencesConcurrent ==
    \A t \in Threads : \A j \in runnable[t] :
        (tpc[t] = "tick" /\ jobs[j].cad # jobs[cur[t]].cad)
           => ENABLED (\E u \in Threads : StartTick(u))

(***************************************************************************)
(* WebSocketManager (services/websocket_manager.py).  A connection is      *)
(* known by its client id.  The methods are coroutines of one event loop:  *)
(* they interleave at their awaits, which is modelled for the for loop of  *)
(* broadcast_to_subscribers, one action per client reached; the other      *)
(* methods, whose only await that matters is the last send, are one action *)
(* each.  self.running is written by start() and stop() and read by        *)
(* nothing: it is left out, and with it start().                           *)
(***************************************************************************)
Clients == 1 .. NumClients

\* the subscription types the callers of the model use, and one that is not
\* a key of self.subscriptions
UsedTypes == {"alerts", "weather_updates"}
unknown_type == "no_such_type"

\* disconnect(client_id), lines 50-59, on the two collections
Disconnected(conns, subs, c) ==
    [active |-> conns \ {c},
     subs |-> [t \in DOMAIN subs |-> subs[t] \ {c}]]

\* send_personal_message(message, client_id), lines 61-69: nothing for a
\* client that is not connected; a failing send_text (or json.dumps) is
\* caught and the client disconnected
SendPersonalMessageNoCatch(conns, subs, c, ok) ==
    IF c \notin conns
      THEN [active |-> conns, subs |-> subs, outcome |-> "skipped", raised |-> FALSE]
      ELSE IF ok
        THEN [active |-> conns, subs |-> subs, outcome |-> "sent", raised |-> FALSE]
        ELSE [active |-> conns, subs |-> subs, outcome |-> "failed", raised |-> TRUE]
SendPersonalMessage(conns, subs, c, ok) ==
    IF c \notin conns
      THEN [active |-> conns, subs |-> subs, outcome |-> "skipped", raised |-> FALSE]
      ELSE IF ok
        THEN [active |-> conns, subs |-> subs, outcome |-> "sent", raised |-> FALSE]
        ELSE [active |-> Disconnected(conns, subs, c).active,
              subs |-> Disconnected(conns, subs, c).subs,
              outcome |-> "failed", raised |-> FALSE]

\* subscribe(client_id, subscription_type), lines 86-99
Subscribe(conns, subs, c, t, ok) ==
    IF t \in DOMAIN subs
      THEN SendPersonalMessage(conns, [subs EXCEPT ![t] = @ \cup {c}], c, ok)
      ELSE [active |-> conns, subs |-> subs, outcome |-> "skipped", raised |-> FALSE]

\* unsubscribe(client_id, subscription_type), lines 101-114
Unsubscribe(conns, subs, c, t, ok) ==
    IF t \in DOMAIN subs
      THEN SendPersonalMessage(conns, [subs EXCEPT ![t] = @ \ {c}], c, ok)
      ELSE [active |-> conns, subs |-> subs, outcome |-> "skipped", raised |-> FALSE]

\* the messages handle_message is given: type, and subscription_type ("" when
\* the key is absent)
Messages ==
    [type : {"subscribe", "unsubscribe"}, subscription_type : {"alerts", ""}]
      \cup [type : {"ping", "other"}, subscription_type : {""}]

\* handle_message(message, client_id), lines 116-157
HandleMessage(conns, subs, c, msg, ok) ==
    CASE msg.type = "subscribe" ->
           IF msg.subscription_type # ""
             THEN Subscribe(conns, subs, c, msg.subscription_type, ok)
             ELSE [active |-> conns, subs |-> subs, outcome |-> "skipped", raised |-> FALSE]
      [] msg.type = "unsubscribe" ->
           IF msg.subscription_type # ""
             THEN Unsubscribe(conns, subs, c, msg.subscription_type, ok)
             ELSE [active |-> conns, subs |-> subs, outcome |-> "skipped", raised |-> FALSE]
      [] OTHER -> SendPersonalMessage(conns, subs, c, ok)

\* whether websocket.send_text succeeds: it is called only for a connected
\* client
SendOutcomes(c) == IF c \in active_connections THEN BOOLEAN ELSE {TRUE}

\* stop(), lines 24-33: every connection is closed, then both collections are
\* cleared; a close() that raises leaves stop() before anything is cleared
WsStop ==
    /\ \E closed \in BOOLEAN :
          IF closed \/ active_connections = {}
            THEN /\ active_connections' = {}
                 /\ subscriptions' = [t \in DOMAIN subscriptions |-> {}]
            ELSE UNCHANGED <<active_connections, subscriptions>>
    /\ UNCHANGED <<bcPc, bcType, bcTodo, bcSent, bcFailed>>
    /\ UNCHANGED notWs

\* connect(websocket, client_id), lines 35-48: accept() may raise, before the
\* client is registered; then the welcome message is sent
WsConnect(c) ==
    /\ \E accepted \in BOOLEAN, ok \in BOOLEAN :
          IF accepted
            THEN LET r == SendPersonalMessage(active_connections \cup {c}, subscriptions, c, ok)
                 IN /\ active_connections' = r.active
                    /\ subscriptions' = r.subs
            ELSE UNCHANGED <<active_connections, subscriptions>>
    /\ UNCHANGED <<bcPc, bcType, bcTodo, bcSent, bcFailed>>
    /\ UNCHANGED notWs

\* disconnect(client_id)
WsDisconnect(c) ==
    /\ active_connections' = Disconnected(active_connections, subscriptions, c).active
    /\ subscriptions' = Disconnected(active_connections, subscriptions, c).subs
    /\ UNCHANGED <<bcPc, bcType, bcTodo, bcSent, bcFailed>>
    /\ UNCHANGED notWs

\* await manager.subscribe(client_id, subscription_type)
WsSubscribe(c) ==
    /\ \E t \in UsedTypes \cup {unknown_type}, ok \in SendOutcomes(c) :
          LET r == Subscribe(active_connections, subscriptions, c, t, ok)
          IN /\ active_connections' = r.active
             /\ subscriptions' = r.subs
    /\ UNCHANGED <<bcPc, bcType, bcTodo, bcSent, bcFailed>>
    /\ UNCHANGED notWs

\* await manager.unsubscribe(client_id, subscription_type)
WsUnsubscribe(c) ==
    /\ \E t \in UsedTypes \cup {unknown_type}, ok \in SendOutcomes(c) :
          LET r == Unsubscribe(active_connections, subscriptions, c, t, ok)
          IN /\ active_connections' = r.active
             /\ subscriptions' = r.subs
    /\ UNCHANGED <<bcPc, bcType, bcTodo, bcSent, bcFailed>>
    /\ UNCHANGED notWs

\* await manager.handle_message(message, client_id)
WsHandleMessage(c) ==
    /\ \E msg \in Messages, ok \in SendOutcomes(c) :
          LET r == HandleMessage(active_connections, subscriptions, c, msg, ok)
          IN /\ active_connections' = r.active
             /\ subscriptions' = r.subs
    /\ UNCHANGED <<bcPc, bcType, bcTodo, bcSent, bcFailed>>
    /\ UNCHANGED notWs

\* the types of the broadcasts: broadcast_alert's, line 173, and an unknown one
BroadcastTypes == {"alerts", unknown_type}

\* broadcast_to_subscribers(message, subscription_type), lines 73-80: the
\* subscribers are copied; an unknown type does nothing
BroadcastBegin ==
    /\ bcPc \in {"idle", "done"}
    /\ \E t \in BroadcastTypes :
          /\ bcType' = t
          /\ IF t \in DOMAIN subscriptions
               THEN bcTodo' = subscriptions[t] /\ bcPc' = "send"
               ELSE bcTodo' = {} /\ bcPc' = "done"
    /\ bcSent' = {}
    /\ bcFailed' = {}
    /\ UNCHANGED <<active_connections, subscriptions>>
    /\ UNCHANGED notWs

\* one pass of `for client_id in subscribers`, lines 83-84; a set is iterated
\* in no particular order
BroadcastSend ==
    /\ bcPc = "send"
    /\ \E c \in bcTodo : \E ok \in SendOutcomes(c) :
          LET r == SendPersonalMessage(active_connections, subscriptions, c, ok)
          IN /\ active_connections' = r.active
             /\ subscriptions' = r.subs
             /\ bcSent' = IF r.outcome = "sent" THEN bcSent \cup {c} ELSE bcSent
             /\ bcFailed' = IF r.outcome = "failed" THEN bcFailed \cup {c} ELSE bcFailed
             /\ IF r.raised
                  THEN bcPc' = "raised" /\ UNCHANGED bcTodo
                  ELSE bcPc' = "send" /\ bcTodo' = bcTodo \ {c}
    /\ UNCHANGED bcType
    /\ UNCHANGED notWs

\* the for loop is exhausted: broadcast_to_subscribers returns
BroadcastEnd ==
    /\ bcPc = "send"
    /\ bcTodo = {}
    /\ bcPc' = "done"
    /\ UNCHANGED <<active_connections, subscriptions, bcType, bcTodo, bcSent, bcFailed>>
    /\ UNCHANGED notWs

InitWs ==
    /\ WsIdle
    /\ SchedIdle /\ SweepIdle /\ CollectIdle /\ RiskIdle /\ AnalysisIdle /\ PredictIdle

NextWs ==
    \/ WsStop
    \/ \E c \in Clients : WsConnect(c)
    \/ \E c \in Clients : WsDisconnect(c)
    \/ \E c \in Clients : WsSubscribe(c)
    \/ \E c \in Clients : WsUnsubscribe(c)
    \/ \E c \in Clients : WsHandleMessage(c)
    \/ BroadcastBegin
    \/ BroadcastSend
    \/ BroadcastEnd

SpecWs == InitWs /\ [][NextWs]_vars

(***************************************************************************)
(* Claims about the alert sweep.  The formulas compare the scores with     *)
(* 7/10 and 8/10 themselves, not through the model's operators.            *)
(***************************************************************************)
Above70(v) == v.n * 10 > 7 * v.d
Above80(v) == v.n * 10 > 8 * v.d
\* the records of S that are for hazard key k
RecordsFor(S, k) == {i \in 1 .. Len(S) : S[i].alert_type = StripRisk(k)}
\* the store call raised for the last record handed to it
LastStoreRaised == swPc = "done" /\ Len(handed) > Len(db_alerts)
SeverityRule ==
    \A i \in 1 .. Len(handed) :
        /\ handed[i].severity = "high" <=> Above80(handed[i].ai_confidence)
        /\ handed[i].severity = "medium" <=> ~Above80(handed[i].ai_confidence)

NonEmptyText(r) == r.title # <<>> /\ r.description # <<>>

C6_StoredAndPublished ==
    swPc \in {"loop", "done"} =>
        \A k \in RiskKeySet :
            (KeyIndex(k) < swIdx /\ Above70(risk_assessment[k])) =>
                RecordsFor(db_alerts, k) # {} /\ RecordsFor(published, k) # {}

\* C19: in a sweep whose store calls all succeed, whether or not the LLM
\* request fails, the formatter is called only for a hazard above 0.7, a
\* hazard at or below 0.7 ends with no alert record, a hazard above it ends
\* with exactly one, stored; and no hazard ever has more than one record.
StoreSucceeded == Len(db_alerts) = Len(handed)
C19_OneTerminalStatePerHazard ==
    /\ swPc \in {"format", "store"} =>
          /\ Above70(risk_assessment[RiskKeys[swIdx]])
          /\ alert_data.alert_type = StripRisk(RiskKeys[swIdx])
          /\ RecordsFor(handed, RiskKeys[swIdx]) = {}
    /\ \A k \in DOMAIN risk_assessment : Cardinality(RecordsFor(handed, k)) <= 1
    /\ (swPc = "done" /\ StoreSucceeded) =>
          \A k \in RiskKeySet :
              IF Above70(risk_assessment[k])
                THEN /\ Cardinality(RecordsFor(handed, k)) = 1
                     /\ Cardinality(RecordsFor(db_alerts, k)) = 1
                ELSE /\ RecordsFor(handed, k) = {}
                     /\ k \notin fmtFailed

\* a finished sweep whose store calls all succeeded, with a hazard at exactly
\* 0.7, one above it whose LLM request failed and one whose request succeeded
C19_Witness ==
    /\ swPc = "done"
    /\ StoreSucceeded
    /\ \E k \in RiskKeySet : risk_assessment[k] = Rat(70, 100)
    /\ \E k \in fmtFailed : RecordsFor(db_alerts, k) # {}
    /\ \E k \in RiskKeySet \ fmtFailed : RecordsFor(db_alerts, k) # {}

(***************************************************************************)
(* Claims about the collection tick.                                       *)
(***************************************************************************)
\* C5: at the end of a tick in which the fetch or the store of some city
\* failed, every city has had its fetch issued and answered, a city's
\* measurement is stored exactly when its own fetch returned 200 and its own
\* store committed (wherever the failing cities are in the list), and every
\* city that failed in the previous tick has been fetched again.
C5_FailureIsolatedPerCity ==
    (colPc = "end" /\ (failedLast # {} \/ \E a \in CityIds : FetchFailed(a) \/ StoreFailed(a))) =>
        /\ \A b \in CityIds : fetchRes[b] \in {"200", "non200", "raise"}
        /\ \A b \in CityIds :
              b \in weatherDb <=> (fetchRes[b] = "200" /\ storeRes[b] \in {"ok", "chain_raise"})
        /\ \A a \in failedLast : fetchRes[a] # "none"

\* the end of a tick in which the first and the last city failed, the one
\* between them was stored, and that one had failed in the tick before
C5_Witness ==
    /\ colPc = "end"
    /\ fetchRes[1] = "raise"
    /\ storeRes[NumCities] = "db_raise"
    /\ 2 \in weatherDb
    /\ 2 \in failedLast

\* C10: while the fetch of one city is in flight, the fetch of any city not
\* yet fetched can be issued.
C10_FetchesConcurrent ==
    \A c \in CityIds : \A c2 \in CityIds :
        (fetchRes[c] = "pending" /\ fetchRes[c2] = "none") => ENABLED FetchIssue(c2)

(***************************************************************************)
(* Claims about the Risk Scorer.                                           *)
(***************************************************************************)
\* C3: each of the four scores _assess_risks returns lies in [0, 1].
C3_ScoresInUnitInterval ==
    rPc = "done" =>
        \A k \in RiskKeySet : 0 <= risks[k].n /\ risks[k].n <= risks[k].d

\* C12 as stated: on a non-empty batch the scorer returns, and a hazard one
\* of whose fields is absent from the batch, or null in every measurement,
\* gets exactly 0.0.
HazardFields(k) ==
    CASE k = "flood_risk"               -> {"precipitation"}
      [] k = "drought_risk"             -> {"precipitation", "temperature"}
      [] k = "storm_risk"               -> {"wind_speed", "pressure"}
      [] k = "extreme_temperature_risk" -> {"temperature"}
FieldMissing(d, f) == f \notin d.cols \/ f \in d.nulls
C12_MissingFieldGivesZero ==
    (rPc \in {"done", "raised"} /\ Len(df.rows) > 0) =>
        /\ rPc = "done"
        /\ \A k \in RiskKeySet :
              (\E f \in HazardFields(k) : FieldMissing(df, f)) =>
                  (risks[k].n = 0 /\ risks[k].d # 0)

\* C15: storm_risk does not decrease when the wind_speed of the last sample
\* is raised, and does not change when the wind_speed of a sample older than
\* the last 6 is changed.
WindValues == {-5, 30, 60, 61, 1000}
WithWind(d, i, w) ==
    [d EXCEPT !.rows = [j \in 1 .. Len(d.rows) |->
                           IF j = i THEN [d.rows[j] EXCEPT !.wind_speed = w]
                           ELSE d.rows[j]]]
StormScored ==
    /\ rPc = "done"
    /\ Len(df.rows) > 0
    /\ {"wind_speed", "pressure"} \subseteq df.cols
    /\ "wind_speed" \notin df.nulls
C15_StormMonotoneInLastWind ==
    StormScored =>
        LET n == Len(df.rows) IN
        /\ \A w \in WindValues :
              w > df.rows[n].wind_speed =>
                 RLe(risks.storm_risk, StormRisk(WithWind(df, n, w)))
        /\ \A i \in 1 .. n - 6 : \A w \in {-5, 1000} :
              StormRisk(WithWind(df, i, w)) = risks.storm_risk

\* a batch of more than 6 samples whose storm_risk rises strictly with the
\* last wind_speed and whose oldest sample has the highest wind_speed
C15_Witness ==
    /\ StormScored
    /\ Len(df.rows) > 6
    /\ df.rows[1].wind_speed > df.rows[Len(df.rows)].wind_speed
    /\ \A i \in 2 .. Len(df.rows) : df.rows[i].wind_speed < df.rows[1].wind_speed
    /\ \E w \in WindValues :
          RLt(risks.storm_risk, StormRisk(WithWind(df, Len(df.rows), w)))

(***************************************************************************)
(* Claims about the analysis tick and the analyzer.                        *)
(***************************************************************************)
\* analyze_weather_patterns has returned a dict for df
Analyzed == anPc \in {"returned", "sweep"} \/ (anPc = "done" /\ swPc = "done")
\* the sum of precipitation over the last 24 rows, or over all when fewer
Last24Precipitation(d) ==
    LET n == Len(d.rows)
        first == IF n > 24 THEN n - 23 ELSE 1
    IN SumSeq([i \in 1 .. n - first + 1 |-> d.rows[first + i - 1].precipitation])
TwentyFourThrees(d) ==
    Len(d.rows) = 24 /\ \A i \in 1 .. 24 : d.rows[i].precipitation = 3
IsHighFloodAlert(r) == r.alert_type = "flood" /\ r.severity = "high"

\* C11: flood_risk is min(1.0, S/50) with S the precipitation of the last 24
\* samples (of all samples when fewer); for 24 samples of 3.0 it is 1.0, and
\* the sweep of that analysis gives the store a flood alert of severity high
\* as its first record, which is persisted when the store call succeeds.
C11_FloodFormulaAndHighAlert ==
    /\ (Analyzed /\ Len(df.rows) > 0 /\ "precipitation" \in df.cols) =>
          LET S == Last24Precipitation(df)
              f == analysis.risk_assessment.flood_risk
          IN /\ f.d # 0
             /\ IF S >= 50 THEN f.n = f.d ELSE f.n * 50 = S * f.d
    /\ (anPc \in {"sweep", "done"} /\ TwentyFourThrees(df)) =>
          /\ analysis.risk_assessment.flood_risk = ROne
          /\ swPc = "done" =>
                /\ handed # <<>> /\ IsHighFloodAlert(handed[1])
                /\ IF Len(handed) = 1 /\ LastStoreRaised
                     THEN db_alerts = <<>>
                     ELSE db_alerts # <<>> /\ db_alerts[1] = handed[1]

\* the tick over 24 samples of 3.0 has ended with the high flood alert stored
C11_Witness ==
    /\ anPc = "done"
    /\ TwentyFourThrees(df)
    /\ db_alerts # <<>>
    /\ IsHighFloodAlert(db_alerts[1])

\* C16: for every column with at least 4 samples, lower <= Q1 <= Q3 <= upper,
\* and every anomaly reported for the column carries those bounds and a value
\* strictly below the lower or strictly above the upper one.
NumericalColumnSet == {"temperature", "humidity", "pressure", "wind_speed", "precipitation"}
AnomaliesOf(a, col) == {i \in 1 .. Len(a.anomalies) : a.anomalies[i].column = col}
C16_AnomalyBoundsOrdered ==
    (Analyzed /\ Len(df.rows) >= 4) =>
        \A col \in NumericalColumnSet \cap df.cols :
            LET b == AnomalyBounds(Column(df, col)) IN
            /\ RLe(b.lower_bound, b.Q1) /\ RLe(b.Q1, b.Q3) /\ RLe(b.Q3, b.upper_bound)
            /\ \A i \in AnomaliesOf(analysis, col) :
                  LET an == analysis.anomalies[i] IN
                  /\ an.expected_range = <<b.lower_bound, b.upper_bound>>
                  /\ an.value = df.rows[an.index][col]
                  /\ \/ an.value * b.lower_bound.d < b.lower_bound.n
                     \/ an.value * b.upper_bound.d > b.upper_bound.n

\* an analysis of at least 4 samples that reports an anomaly and leaves
\* unreported a value that is equal to one of the bounds
C16_Witness ==
    /\ Analyzed
    /\ Len(df.rows) >= 4
    /\ LET b == AnomalyBounds(Column(df, "temperature")) IN
       /\ AnomaliesOf(analysis, "temperature") # {}
       /\ \E j \in 1 .. Len(df.rows) :
             /\ \/ REq(Rat(df.rows[j].temperature, 1), b.lower_bound)
                \/ REq(Rat(df.rows[j].temperature, 1), b.upper_bound)
             /\ \A i \in AnomaliesOf(analysis, "temperature") :
                   analysis.anomalies[i].index # j

\* C17 as stated: on an empty batch the analyzer raises nothing and returns a
\* result that has statistics, trends and anomalies, all empty.
DirectCallEnded == anPc \in {"returned", "raised"}
InTick == anPc \in {"query", "analyze", "sweep", "done"}
PredictCallEnded == ptPc \in {"returned", "raised"}
LastThree(d, col) ==
    <<d.rows[Len(d.rows) - 2][col], d.rows[Len(d.rows) - 1][col], d.rows[Len(d.rows)][col]>>

\* C13: for a batch of at least 3 points the predictor returns (unless a
\* column is None in every row), and for each numeric column that has values
\* the predicted value p satisfies 3*p = 4*v2 - v0, where v0 and v2 are the
\* third last and the last value; for the temperatures 20, 22, 25 it is 80/3.
C13_PredictedValue ==
    (PredictCallEnded /\ Len(df.rows) >= 3) =>
        /\ ~(df.none_obj /\ df.nulls # {}) => ptPc = "returned"
        /\ ptPc = "returned" =>
              \A col \in (NumericalColumnSet \cap df.cols) \ df.nulls :
                  /\ col \in DOMAIN prediction.predictions
                  /\ LET p == prediction.predictions[col].value
                         v == LastThree(df, col)
                     IN /\ p.d # 0
                        /\ 3 * p.n = (4 * v[3] - v[1]) * p.d
                        /\ v = <<20, 22, 25>> => 3 * p.n = 80 * p.d

\* the predictor has returned for a batch whose last temperatures are 20, 22, 25
C13_Witness ==
    /\ ptPc = "returned"
    /\ Len(df.rows) >= 3
    /\ LastThree(df, "temperature") = <<20, 22, 25>>
    /\ 3 * prediction.predictions["temperature"].value.n
          = 80 * prediction.predictions["temperature"].value.d

TickOver == ptPc = "done"
C18_PredictionPersistedOnce ==
    TickOver =>
        \A l \in generated :
            Cardinality({i \in 1 .. Len(db_predictions) : db_predictions[i].location = l}) = 1

\* C20: the rows handed to the predictor in the prediction tick are in
\* ascending timestamp order, so the last three of them are the most recent.
InPredictTick == ptPc \in {"loop", "done"}
C20_BatchAscending ==
    InPredictTick =>
        \A i \in 1 .. Len(data_list) : \A j \in 1 .. Len(data_list) :
            i < j => data_list[i].timestamp < data_list[j].timestamp

(***************************************************************************)
(* Claims about the scheduler's threads and its job list.                  *)
(***************************************************************************)
AliveThreads == {t \in Threads : Alive(t)}
StopReturned == cpc = "idle" /\ ~running

\* C26: whatever start() and stop() calls have been made, at most one
\* scheduler thread is alive, a thread is alive only if it is self.thread,
\* and when stop() has returned (or start() was never called) none is alive.
C26_AtMostOneLoopThread ==
    /\ Cardinality(AliveThreads) <= 1
    /\ AliveThreads \subseteq {thread}
    /\ StopReturned => AliveThreads = {}

\* start, stop, start: the second thread runs its loop, the first has exited,
\* and start() has been called again since
C26_Witness ==
    /\ running
    /\ thread = 2
    /\ tpc[1] = "exited"
    /\ tpc[2] \in {"wake", "pending", "tick", "sleep"}

\* C27: whatever start() and stop() calls have been made, schedule's job list
\* holds at most one job per cadence, so one run_pending() never collects two
\* jobs of the same cadence.
JobsOf(cad) == {j \in 1 .. Len(jobs) : jobs[j].cad = cad}
C27_CadenceRegisteredOnce ==
    \A cad \in CadenceNames :
        /\ Cardinality(JobsOf(cad)) <= 1
        /\ \A t \in Threads : Cardinality(JobsOf(cad) \cap runnable[t]) <= 1

(***************************************************************************)
(* Claims about the Statistical Analyzer's anomalies and trends.           *)
(***************************************************************************)
FewSamples == Len(df.rows) \in 1 .. 3

\* C22: when the analyzer has returned for a batch in which every field has
\* 1, 2 or 3 samples, whatever their values, the anomalies list is empty.
C22_FewSamplesNoAnomaly ==
    (anPc = "returned" /\ FewSamples) => analysis.anomalies = <<>>

\* the analyzer has returned for the three temperatures 0, 0, 100, whose
\* largest value is as far from the others as three samples allow
C22_Witness ==
    /\ anPc = "returned"
    /\ Column(df, "temperature") = <<0, 0, 100>>
    /\ analysis.anomalies = <<>>

TrendsComputed == anPc = "returned" /\ Len(df.rows) >= 2

AnalyzerReturned == anPc = "returned" /\ Len(df.rows) >= 1

C30_AnalysisOnlyAboveTenRows ==
    InTick =>
        IF Len(df.rows) <= 10
          THEN /\ anPc \in {"query", "done"}
               /\ swPc = "idle"
               /\ fmtFailed = {}
               /\ handed = <<>> /\ db_alerts = <<>>
          ELSE anPc = "done" => swPc = "done"

\* a tick has ended without a sweep for exactly 10 rows, the last of which
\* has a wind speed that scores a storm risk of 1.0
C30_Witness ==
    /\ anPc = "done"
    /\ Len(df.rows) = 10
    /\ df.rows[10].wind_speed = 100
    /\ swPc = "idle"
    /\ db_alerts = <<>>

\* C21: the rows an analysis tick passes to the analyzer, and from which the
\* sweep's scores and alerts are computed, are all of one location.
BatchLocations == {recent_locations[i] : i \in 1 .. Len(recent_locations)}
C21_BatchOfOneLocation ==
    (anPc = "sweep" \/ (anPc = "done" /\ swPc = "done")) =>
        Cardinality(BatchLocations) <= 1

\* C25: the sweep never lets an exception out; when a store call has raised
\* in a tick, the record it was given was handed to the store exactly once,
\* it is the only record not committed, the sweep is over and the tick goes
\* on to its end; the analysis job function returns.
C25_StoreFailureCaughtNotRetried ==
    /\ ~swRaised
    /\ Handler("analysis") = "returns"
    /\ (InTick /\ LastStoreRaised) =>
          /\ Cardinality({i \in 1 .. Len(handed) : handed[i] = handed[Len(handed)]}) = 1
          /\ Len(handed) = Len(db_alerts) + 1
          /\ \A i \in 1 .. Len(db_alerts) : db_alerts[i] = handed[i]
          /\ anPc \in {"sweep", "done"}

\* a tick has ended in which one alert was committed and the store call for
\* the next one raised
C25_Witness ==
    /\ anPc = "done"
    /\ LastStoreRaised
    /\ Len(db_alerts) = 1
    /\ Len(handed) = 2

(***************************************************************************)
(* Claims about the WebSocket manager.                                     *)
(***************************************************************************)
\* C28: in every reachable state of the manager, every client id in a
\* subscription set is a key of active_connections.
C28_SubscribersAreConnected ==
    \A t \in DOMAIN subscriptions : subscriptions[t] \subseteq active_connections

\* C29: the broadcast never raises; at the step at which the send to a
\* client fails, that client leaves active_connections and every
\* subscription set; and every client of the copied subscribers that is
\* connected when the loop reaches it is sent the message, whatever failed
\* before it.
C29_FailedSendIsolated ==
    [][ /\ bcPc' # "raised"
        /\ \A c \in bcFailed' \ bcFailed :
              /\ c \notin active_connections'
              /\ \A t \in DOMAIN subscriptions' : c \notin subscriptions'[t]
        /\ (bcPc = "send" /\ bcPc' = "send") =>
              \A c \in bcTodo \ bcTodo' :
                  c \in active_connections => c \in bcSent' \cup bcFailed'
        /\ (bcPc = "send" /\ bcPc' = "done") => bcTodo = {}
      ]_vars

\* a finished broadcast in which the send to one client failed, that client
\* is gone, and another client was sent the message
C29_Witness ==
    /\ bcPc = "done"
    /\ bcFailed # {}
    /\ bcSent # {}
    /\ bcFailed \cap active_connections = {}

=============================================================================
